---- MODULE Spec2Model ----
(***************************************************************************)
(* Model of the agent workflow of backend/agents: the LangGraph state      *)
(* graph built by ArogyaSwarmGraph, the Sentinel forecast blending, the    *)
(* Orchestrator stage and the action-agent dispatcher; and of the services *)
(* around it: the retry loops of the external calls, the approval API, the *)
(* monitoring loop, the ingestion queue, bulk alerts and the WebSocket     *)
(* registry, each with a specification of its own.                         *)
(*                                                                         *)
(* Python dictionaries are records whose optional keys hold <<>> (key      *)
(* absent) or <<v>> (key present with value v).  Percentages and scores    *)
(* are integers.  Log strings are abstracted to the tag that starts them.  *)
(***************************************************************************)
EXTENDS Integers, Sequences, FiniteSets, TLC

VARIABLES
    pc,          \* node the graph is at: START, sentinel, orchestrator, action_agents, monitor, END
    phase,       \* "ready": node not yet run; "merged": its writes are applied; "done" at END
    outcome,     \* of run(): "running", "returned", "raised"
    error,       \* [stage, kind] of the exception that left run(), kind "none" when none
    state,       \* channel values of the AgentState graph state
    visited,     \* nodes whose writes were merged, in order
    last,        \* the last merge: node, channel values before it, entries the node contributed
    blend,       \* last call of _combine_predictions: inputs and result
    dispatch,    \* last call of execute_recommendations: inputs and result
    db_session,  \* config['db_session'] the graph was built with: "session" or "none"
    runs,        \* concurrent invocations of the graph: each one's position, state and inputs
    call,        \* a direct call of OrchestratorAgent.orchestrate: its argument and result
    retry,       \* an external call inside its retry loop: attempts, responses, waits
    api,         \* the recommendations table and the last response of the approval API
    loop,        \* position of run_agent_monitoring and what its task received
    ingest,      \* the ingestion queue directory and one pass of process_queue
    bulk,        \* one call of send_bulk_alerts: recipients, results, failed
    ws           \* ConnectionManager.active_connections and a broadcast in progress

services == <<call, retry, api, loop, ingest, bulk, ws>>

vars == <<pc, phase, outcome, error, state, visited, last, blend, dispatch, db_session, runs,
          call, retry, api, loop, ingest, bulk, ws>>

----------------------------------------------------------------------------
(* Bounds *)

MaxInitEntries == 1      \* entries the caller may put in each list of initial_state

MaxRecipients == 3       \* recipients of one call of send_bulk_alerts

----------------------------------------------------------------------------
(* Optional dictionary keys *)

None == <<>>
Some(v) == <<v>>
Has(o) == o # <<>>
Get(o) == o[1]

Min(a, b) == IF a < b THEN a ELSE b
Abs(a) == IF a < 0 THEN -a ELSE a

----------------------------------------------------------------------------
(* AgentState: declared keys and their reducers *)

AppendOnly == {"recommendations", "messages", "reasoning_chain"}

Declared == AppendOnly \cup
            {"surge_prediction", "confidence_score", "current_agent", "next_action"}

\* dict.update(result): keys of result replace or extend those of d
Update(d, result) ==
    [k \in (DOMAIN d) \cup (DOMAIN result) |->
        IF k \in DOMAIN result THEN result[k] ELSE d[k]]

\* Merge with every key overwritten by the returned value
MergeOverwrite(chan, ret) ==
    [k \in DOMAIN chan |-> IF k \notin DOMAIN ret THEN chan[k] ELSE ret[k]]

\* The graph applies a node's returned dict to the channels: a key annotated
\* with operator.add gets channel + returned value, any other declared key is
\* overwritten, and a key that AgentState does not declare has no channel.
Merge(chan, ret) ==
    [k \in DOMAIN chan |->
        IF k \notin DOMAIN ret THEN chan[k]
        ELSE IF k \in AppendOnly THEN chan[k] \o ret[k]
        ELSE ret[k]]

----------------------------------------------------------------------------
(* SentinelAgent: the reasoning service's response and the forecast blend *)

Likelihoods == {"low", "medium", "high", "critical", "unknown"}

\* predicted_patient_increase values a JSON object can carry:
\*   form "pct"    a string "<n>%" or "<n>"
\*   form "text"   a string that is not a number, such as "percentage"
\*   form "number" a JSON number n, which is not a string
Increase(form, n) == [form |-> form, n |-> n]

EmptyDict ==
    [surge_likelihood |-> None, confidence_score |-> None, reasoning |-> None,
     predicted_patient_increase |-> None, statistical_forecast |-> None]

\* Response texts of the reasoning service:
\*   kind "text"   not parseable as JSON
\*   kind "scalar" JSON that is not an object (a list, a string, a number)
\*   kind "object" a JSON object with the keys of data
LLMResponses ==
    {[kind |-> k, data |-> EmptyDict] : k \in {"text", "scalar"}}
    \cup
    {[kind |-> "object",
      data |-> [surge_likelihood |-> l, confidence_score |-> c, reasoning |-> r,
                predicted_patient_increase |-> i, statistical_forecast |-> None]] :
        l \in {None} \cup {Some(x) : x \in Likelihoods},
        c \in {None} \cup {Some(x) : x \in {0, 70, 85, 100, 120}},
        r \in {None, Some("llm reasoning")},
        i \in {None, Some(Increase("pct", 22)), Some(Increase("pct", 40)),
               Some(Increase("text", 0)), Some(Increase("number", 22))}}

\* predicted_increase_pct values of the time-series forecast
Forecasts == {12, 18, 30}

DefaultRecord ==
    [EmptyDict EXCEPT !.surge_likelihood = Some("medium"),
                      !.confidence_score = Some(60),
                      !.reasoning = Some("Analysis in progress")]

Raised(kind) == [raised |-> TRUE, kind |-> kind, val |-> EmptyDict]
Returned(v) == [raised |-> FALSE, kind |-> "none", val |-> v]

\* float(llm_data.get("predicted_patient_increase", "20").rstrip('%'))
ParseIncrease(o) ==
    IF ~Has(o) THEN [ok |-> TRUE, n |-> 20]
    ELSE IF Get(o).form = "pct" THEN [ok |-> TRUE, n |-> Get(o).n]
    ELSE [ok |-> FALSE, n |-> 0]

AgreementBonus(c) == Min(c + 15, 95)

\* the agreement test with the threshold included
AgreesInclusive(q, p) == Abs(q - p) <= 10

Agrees(q, p) == Abs(q - p) < 10

combine_predictions(llm_pred, ts_forecast) ==
    LET llm_data == IF llm_pred.kind = "text" THEN DefaultRecord ELSE llm_pred.data
        inc == ParseIncrease(llm_data.predicted_patient_increase)
    IN  IF llm_pred.kind = "scalar" THEN Raised("AttributeError")
        ELSE IF ~inc.ok THEN
            Raised(IF Get(llm_data.predicted_patient_increase).form = "number"
                   THEN "AttributeError" ELSE "ValueError")
        ELSE IF Agrees(inc.n, ts_forecast) /\ ~Has(llm_data.confidence_score)
            THEN Raised("KeyError")
        ELSE Returned(
            [llm_data EXCEPT
                !.confidence_score =
                    IF Agrees(inc.n, ts_forecast)
                    THEN Some(AgreementBonus(Get(llm_data.confidence_score)))
                    ELSE @,
                !.statistical_forecast = Some(ts_forecast)])

Escalating == {"high", "critical"}

\* llm_ok is FALSE when the call of the reasoning service raises
monitor_and_predict(llm_ok, llm_pred, ts_forecast) ==
    LET combined == combine_predictions(llm_pred, ts_forecast)
        p == combined.val
    IN  IF ~llm_ok THEN Raised("ServiceError")
        ELSE IF combined.raised THEN combined
        ELSE IF ~Has(p.confidence_score) \/ ~Has(p.surge_likelihood) \/ ~Has(p.reasoning)
            THEN Raised("KeyError")
        ELSE [raised |-> FALSE, kind |-> "none",
              val |-> [surge_prediction |-> p,
                       confidence_score |-> Get(p.confidence_score),
                       messages |-> <<"[Sentinel]">>,
                       reasoning_chain |-> <<Get(p.reasoning)>>,
                       current_agent |-> "sentinel",
                       next_action |-> IF Get(p.surge_likelihood) \in Escalating
                                       THEN "escalate_to_orchestrator" ELSE "monitor"]]

\* should_escalate that escalates on "medium" as well
should_escalate_medium_too(s) ==
    IF Has(s.surge_prediction.surge_likelihood)
       /\ Get(s.surge_prediction.surge_likelihood) \in {"medium", "high", "critical"}
    THEN "escalate" ELSE "monitor"

\* should_escalate that escalates on "critical" only
should_escalate_critical_only(s) ==
    IF Has(s.surge_prediction.surge_likelihood)
       /\ Get(s.surge_prediction.surge_likelihood) = "critical"
    THEN "escalate" ELSE "monitor"

should_escalate(s) ==
    LET surge_likelihood == IF Has(s.surge_prediction.surge_likelihood)
                            THEN Get(s.surge_prediction.surge_likelihood) ELSE "low"
    IN  IF surge_likelihood \in Escalating THEN "escalate" ELSE "monitor"

----------------------------------------------------------------------------
(* OrchestratorAgent *)

Rec(type, title) == [type |-> type, title |-> title]

parse_recommendations ==
    <<Rec("staff_reallocation", "Move 5 nurses from OPD to ER"),
      Rec("supply_order", "Order 20 O2 cylinders (emergency)"),
      Rec("patient_advisory", "SMS Alert: High wait times expected")>>

\* agent_ok is FALSE when the ReAct executor's call of the reasoning service raises
orchestrate(s, agent_ok) ==
    LET surge_pred == s.surge_prediction
    IN  IF ~Has(surge_pred.surge_likelihood) THEN Raised("KeyError")
        ELSE IF Get(surge_pred.surge_likelihood) = "low" THEN
            Returned([messages |-> <<"[Orchestrator]">>,
                      next_action |-> "continue_monitoring"])
        ELSE IF ~Has(surge_pred.confidence_score) THEN Raised("KeyError")
        ELSE IF ~agent_ok THEN Raised("ServiceError")
        ELSE Returned([recommendations |-> parse_recommendations,
                       messages |-> <<"[Orchestrator]">>,
                       reasoning_chain |-> <<"agent output">>,
                       current_agent |-> "orchestrator",
                       next_action |-> "dispatch_action_agents"])

----------------------------------------------------------------------------
(* Action agents *)

\* Staff roster with the fatigue_score of each member
Staff == {"nurse_a", "nurse_b"}

fatigue_score(n) == IF n = "nurse_a" THEN 85 ELSE 40

FatigueThreshold == 70

\* What a handler's call of the reasoning service yields for one item:
\* raises is TRUE when the call or json.loads of its content raises; otherwise
\* the parsed content, of which staff_to_move and the manual-review flag of
\* implementation_notes are kept.
HandlerOutcomes ==
    {[raises |-> TRUE, staff_to_move |-> {}, manual_review |-> FALSE]}
    \cup
    {[raises |-> FALSE, staff_to_move |-> m, manual_review |-> f] :
        m \in SUBSET Staff, f \in BOOLEAN}

NoStaffOutcomes == {o \in HandlerOutcomes : o.staff_to_move = {} /\ ~o.manual_review}

Artifact(o) == [staff_to_move |-> o.staff_to_move, manual_review |-> o.manual_review]

\* StaffReallocationAgent.draft_reallocation_plan: json.loads(result.content)
draft_reallocation_plan(o) == Artifact(o)

draft_purchase_order(o) == Artifact(o)

generate_advisory_message(o) == Artifact(o)

ResultKey(type) ==
    IF type = "staff_reallocation" THEN "action_plan"
    ELSE IF type = "supply_order" THEN "purchase_order"
    ELSE "advisory"

HandledTypes == {"staff_reallocation", "supply_order", "patient_advisory"}

\* LogisticsAgent queries: self.db.execute(query) raises when the graph was
\* configured without a database session
logistics_query_ok(db) == db # "none"

RECURSIVE execute_from(_, _, _, _, _)
\* the for loop of execute_recommendations from item i on, results so far in acc
execute_from(recommendations, outcomes, db, i, acc) ==
    IF i > Len(recommendations) THEN [raised |-> FALSE, kind |-> "none", results |-> acc]
    ELSE LET rec == recommendations[i]
             o == outcomes[i]
         IN  IF rec.type \notin HandledTypes
                THEN execute_from(recommendations, outcomes, db, i + 1, acc)
             ELSE IF ~logistics_query_ok(db)
                THEN [raised |-> TRUE, kind |-> "ConfigError", results |-> <<>>]
             ELSE IF o.raises
                THEN [raised |-> TRUE, kind |-> "HandlerError", results |-> <<>>]
             ELSE execute_from(recommendations, outcomes, db, i + 1,
                    Append(acc,
                        [recommendation |-> rec,
                         key |-> ResultKey(rec.type),
                         artifact |->
                            IF rec.type = "staff_reallocation" THEN draft_reallocation_plan(o)
                            ELSE IF rec.type = "supply_order" THEN draft_purchase_order(o)
                            ELSE generate_advisory_message(o)]))

execute_recommendations(recommendations, outcomes, db) ==
    execute_from(recommendations, outcomes, db, 1, <<>>)

OutcomesOf(rec) ==
    IF rec.type = "staff_reallocation" THEN HandlerOutcomes
    ELSE IF rec.type \in HandledTypes THEN NoStaffOutcomes \cup {o \in HandlerOutcomes : o.raises}
    ELSE NoStaffOutcomes

RECURSIVE OutcomesFrom(_, _)
\* Outcomes the handlers can have for items i.. of a list of recommendations,
\* one per item; only the staff handler's content names staff, and an item of
\* another type has no handler.
OutcomesFrom(recommendations, i) ==
    IF i > Len(recommendations) THEN {<<>>}
    ELSE {<<o>> \o rest : o \in OutcomesOf(recommendations[i]),
                          rest \in OutcomesFrom(recommendations, i + 1)}

----------------------------------------------------------------------------
(* ArogyaSwarmGraph: the nodes and edges of the compiled graph *)

RecPool == {Rec("supply_order", "Restock masks"), Rec("equipment_check", "Inspect ventilators")}

SeqsUpTo(S, n) == UNION {[1 .. k -> S] : k \in 0 .. n}

NoError == [stage |-> "none", kind |-> "none"]

NoEntries == [messages |-> <<>>, reasoning_chain |-> <<>>, recommendations |-> <<>>]

InitialStates ==
    {[recommendations |-> r, messages |-> m, reasoning_chain |-> c,
      surge_prediction |-> EmptyDict, confidence_score |-> 0,
      current_agent |-> "", next_action |-> ""] :
        r \in SeqsUpTo(RecPool, MaxInitEntries),
        m \in SeqsUpTo({"[Init]"}, MaxInitEntries),
        c \in SeqsUpTo({"initial reasoning"}, MaxInitEntries)}

\* The initial state run_agent_monitoring passes to run()
MonitoringState ==
    [recommendations |-> <<>>, messages |-> <<>>, reasoning_chain |-> <<>>,
     surge_prediction |-> EmptyDict, confidence_score |-> 0,
     current_agent |-> "", next_action |-> ""]

\* Invocations of run() in flight on one graph instance
Runs == {1, 2}

NewRun(initial_state) ==
    [pc |-> "START", phase |-> "ready", outcome |-> "running",
     initial_state |-> initial_state, state |-> initial_state, inputs |-> <<>>]

\* No direct call of orchestrate made
NoCall ==
    [called |-> FALSE, state |-> MonitoringState, agent_ok |-> TRUE, invoked |-> FALSE,
     result |-> Returned(EmptyDict)]

\* No external call under way
NoRetry ==
    [client |-> "none", at |-> "idle", attempt |-> 0, responses |-> <<>>, waits |-> <<>>,
     result |-> "pending", source |-> "none"]

\* Primary keys of the rows of the recommendations table
RecIds == {"rec1", "rec2", "rec3"}

NoResponse == [op |-> "none", id |-> "none", code |-> 0, rows |-> {}]

\* Recommendation.status has the default 'pending'
NoApi == [status |-> [id \in RecIds |-> "pending"], response |-> NoResponse]

\* run_agent_monitoring not launched
NoLoop == [pc |-> "idle", cancelled |-> FALSE, failed |-> "none", aqi_task |-> FALSE]

\* Nothing queued and no pass of process_queue under way
NoIngest ==
    [queue |-> {}, at |-> "idle", files |-> <<>>, i |-> 0, documents |-> {}, log |-> <<>>]

NoBulk == [at |-> "idle", recipients |-> <<>>, i |-> 0, results |-> <<>>, failed |-> 0,
           summary |-> None]

\* WebSocket objects of the clients that may connect
Clients == {"ws1", "ws2", "ws3"}

\* ConnectionManager(): no connection, no broadcast under way
NoWs ==
    [active_connections |-> <<>>, registered |-> {}, closed |-> {}, handled |-> {},
     broadcasting |-> FALSE, i |-> 0, sending |-> None, disconnected |-> <<>>,
     targets |-> {},
     delivered |-> {}, removals |-> [c \in Clients |-> 0], error |-> "none"]

ServicesIdle ==
    /\ call = NoCall
    /\ retry = NoRetry
    /\ api = NoApi
    /\ loop = NoLoop
    /\ ingest = NoIngest
    /\ bulk = NoBulk
    /\ ws = NoWs

\* One invocation of run() about to start
InitRun ==
    /\ pc = "START"
    /\ phase = "ready"
    /\ outcome = "running"
    /\ error = NoError
    /\ state \in InitialStates
    /\ visited = <<>>
    /\ last = [node |-> "none", before |-> NoEntries, contributed |-> NoEntries, keys |-> {}]
    /\ blend = [called |-> FALSE, llm_pred |-> [kind |-> "text", data |-> EmptyDict],
                ts_forecast |-> 0, result |-> Returned(EmptyDict)]
    /\ dispatch = [called |-> FALSE, recommendations |-> <<>>, outcomes |-> <<>>,
                   result |-> [raised |-> FALSE, kind |-> "none", results |-> <<>>]]
    /\ db_session \in {"session", "none"}

Init ==
    /\ InitRun
    /\ runs = [r \in Runs |-> NewRun(MonitoringState)]
    /\ ServicesIdle

Entries(s) == [k \in AppendOnly |-> s[k]]

\* The exception of a node recorded and swallowed, the graph going on
RaiseSwallowed(node, kind) ==
    /\ error' = [stage |-> node, kind |-> kind]
    /\ phase' = "merged"
    /\ UNCHANGED <<pc, outcome, state, visited, last, db_session, runs, services>>

\* The exception of a node leaves graph.ainvoke and run()
Raise(node, kind) ==
    /\ outcome' = "raised"
    /\ error' = [stage |-> node, kind |-> kind]
    /\ UNCHANGED <<pc, phase, state, visited, last, db_session, runs, services>>

\* Commit that applies the append-only keys of the returned dict and leaves
\* its other keys for later
CommitListsOnly(node, chan, ret, contributed) ==
    /\ state' = Merge(chan, [k \in (DOMAIN ret) \cap AppendOnly |-> ret[k]])
    /\ phase' = "merged"
    /\ visited' = Append(visited, node)
    /\ last' = [node |-> node, before |-> Entries(state), contributed |-> contributed,
                keys |-> DOMAIN ret]
    /\ UNCHANGED <<pc, outcome, error, db_session, runs, services>>

\* The graph applies the dict a node returned; chan holds the channel values
\* at that moment
Commit(node, chan, ret, contributed) ==
    /\ state' = Merge(chan, ret)
    /\ phase' = "merged"
    /\ visited' = Append(visited, node)
    /\ last' = [node |-> node, before |-> Entries(state), contributed |-> contributed,
                keys |-> DOMAIN ret]
    /\ UNCHANGED <<pc, outcome, error, db_session, runs, services>>

AtNode(node) == pc = node /\ phase = "ready" /\ outcome = "running"

AfterNode(node) == pc = node /\ phase = "merged" /\ outcome = "running"

Goto(node) ==
    /\ pc' = node
    /\ phase' = "ready"
    /\ UNCHANGED <<outcome, error, state, visited, last, blend, dispatch, db_session, runs, services>>

Finish ==
    /\ pc' = "END"
    /\ phase' = "done"
    /\ outcome' = "returned"
    /\ UNCHANGED <<error, state, visited, last, blend, dispatch, db_session, runs, services>>

\* run(): graph.ainvoke starts at the entry point
Enter ==
    /\ pc = "START"
    /\ Goto("sentinel")

sentinel_node ==
    /\ AtNode("sentinel")
    /\ \E llm_ok \in BOOLEAN, llm_pred \in LLMResponses, ts_forecast \in Forecasts :
        LET result == monitor_and_predict(llm_ok, llm_pred, ts_forecast)
        IN  /\ blend' = IF llm_ok
                        THEN [called |-> TRUE, llm_pred |-> llm_pred,
                              ts_forecast |-> ts_forecast,
                              result |-> combine_predictions(llm_pred, ts_forecast)]
                        ELSE blend
            /\ IF result.raised
               THEN Raise("sentinel", result.kind)
               ELSE Commit("sentinel", state, Update(state, result.val),
                           [NoEntries EXCEPT !.messages = result.val.messages,
                                             !.reasoning_chain = result.val.reasoning_chain])
    /\ UNCHANGED dispatch

\* conditional edge of sentinel
sentinel_edge ==
    /\ AfterNode("sentinel")
    /\ Goto(IF should_escalate(state) = "escalate" THEN "orchestrator" ELSE "monitor")

orchestrator_node ==
    /\ AtNode("orchestrator")
    /\ \E agent_ok \in BOOLEAN :
        LET result == orchestrate(state, agent_ok)
        IN  IF result.raised
            THEN Raise("orchestrator", result.kind)
            ELSE Commit("orchestrator", state, Update(state, result.val),
                        [k \in AppendOnly |->
                            IF k \in DOMAIN result.val THEN result.val[k] ELSE <<>>])
    /\ UNCHANGED <<blend, dispatch>>

\* the edge of orchestrator drawn to monitor
orchestrator_edge_to_monitor ==
    /\ AfterNode("orchestrator")
    /\ Goto("monitor")

orchestrator_edge ==
    /\ AfterNode("orchestrator")
    /\ Goto("action_agents")

\* state['messages'].append(x) changes the list object in place; aliased tells
\* whether the channel holds that same object
AppendInPlace(chan, aliased, x) ==
    IF aliased THEN [chan EXCEPT !.messages = Append(@, x)] ELSE chan

action_node ==
    /\ AtNode("action_agents")
    /\ \E outcomes \in OutcomesFrom(state.recommendations, 1), aliased \in BOOLEAN :
        LET result == execute_recommendations(state.recommendations, outcomes, db_session)
            appended == [state EXCEPT !.messages = Append(@, "[ActionAgents]")]
        IN  /\ dispatch' = [called |-> TRUE, recommendations |-> state.recommendations,
                            outcomes |-> outcomes, result |-> result]
            /\ IF result.raised
               THEN Raise("action_agents", result.kind)
               ELSE Commit("action_agents",
                           AppendInPlace(state, aliased, "[ActionAgents]"),
                           Update(appended, [action_results |-> result.results]),
                           [NoEntries EXCEPT !.messages = <<"[ActionAgents]">>])
    /\ UNCHANGED blend

action_edge ==
    /\ AfterNode("action_agents")
    /\ Finish

monitor_node ==
    /\ AtNode("monitor")
    /\ \E aliased \in BOOLEAN :
        Commit("monitor",
               AppendInPlace(state, aliased, "[System]"),
               [state EXCEPT !.messages = Append(@, "[System]")],
               [NoEntries EXCEPT !.messages = <<"[System]">>])
    /\ UNCHANGED <<blend, dispatch>>

\* the edge of monitor drawn back to sentinel
monitor_edge_to_sentinel ==
    /\ AfterNode("monitor")
    /\ Goto("sentinel")

monitor_edge ==
    /\ AfterNode("monitor")
    /\ Finish

Next ==
    \/ Enter
    \/ sentinel_node
    \/ sentinel_edge
    \/ orchestrator_node
    \/ orchestrator_edge
    \/ action_node
    \/ action_edge
    \/ monitor_node
    \/ monitor_edge

Spec == Init /\ [][Next]_vars

\* The initial state run_agent_monitoring builds: the three lists empty
MonitoringInit ==
    /\ Init
    /\ \A k \in AppendOnly : state[k] = <<>>

\* graph.ainvoke is awaited: the event loop keeps running the node that is due
FairSpec == MonitoringInit /\ [][Next]_vars /\ WF_vars(Next)

----------------------------------------------------------------------------
(* Concurrent invocations of run() on one ArogyaSwarmGraph instance *)

OkOutcome == [raises |-> FALSE, staff_to_move |-> {}, manual_review |-> FALSE]

RaisingOutcome == [raises |-> TRUE, staff_to_move |-> {}, manual_review |-> FALSE]

PredictionOf(likelihood) ==
    [kind |-> "object",
     data |-> [EmptyDict EXCEPT !.surge_likelihood = Some(likelihood),
                                !.confidence_score = Some(70),
                                !.reasoning = Some("llm reasoning"),
                                !.predicted_patient_increase = Some(Increase("pct", 22))]]

\* What the services answer to one node of one invocation
NoInput ==
    [llm_ok |-> TRUE, llm_pred |-> PredictionOf("low"), ts_forecast |-> 18,
     agent_ok |-> TRUE, outcomes |-> <<>>, aliased |-> FALSE]

StageInputs(node, s) ==
    IF node = "sentinel" THEN
        {[NoInput EXCEPT !.llm_ok = FALSE]}
        \cup {[NoInput EXCEPT !.llm_pred = PredictionOf(l)] : l \in {"low", "critical"}}
    ELSE IF node = "orchestrator" THEN
        {[NoInput EXCEPT !.agent_ok = b] : b \in BOOLEAN}
    ELSE IF node = "action_agents" THEN
        {[NoInput EXCEPT !.outcomes = [i \in 1 .. Len(s.recommendations) |-> o],
                         !.aliased = a] :
            o \in {OkOutcome, RaisingOutcome}, a \in BOOLEAN}
    ELSE {[NoInput EXCEPT !.aliased = a] : a \in BOOLEAN}

\* A node function applied to the state s it is passed, and the graph's merge
\* of what it returns
node_step(node, s, in, db) ==
    IF node = "sentinel" THEN
        LET result == monitor_and_predict(in.llm_ok, in.llm_pred, in.ts_forecast)
        IN  IF result.raised THEN [raised |-> TRUE, state |-> s]
            ELSE [raised |-> FALSE, state |-> Merge(s, Update(s, result.val))]
    ELSE IF node = "orchestrator" THEN
        LET result == orchestrate(s, in.agent_ok)
        IN  IF result.raised THEN [raised |-> TRUE, state |-> s]
            ELSE [raised |-> FALSE, state |-> Merge(s, Update(s, result.val))]
    ELSE IF node = "action_agents" THEN
        LET result == execute_recommendations(s.recommendations, in.outcomes, db)
            appended == [s EXCEPT !.messages = Append(@, "[ActionAgents]")]
        IN  IF result.raised THEN [raised |-> TRUE, state |-> s]
            ELSE [raised |-> FALSE,
                  state |-> Merge(AppendInPlace(s, in.aliased, "[ActionAgents]"),
                                  Update(appended, [action_results |-> result.results]))]
    ELSE [raised |-> FALSE,
          state |-> Merge(AppendInPlace(s, in.aliased, "[System]"),
                          [s EXCEPT !.messages = Append(@, "[System]")])]

\* The edge the graph follows from a node
next_node(node, s) ==
    IF node = "sentinel"
        THEN (IF should_escalate(s) = "escalate" THEN "orchestrator" ELSE "monitor")
    ELSE IF node = "orchestrator" THEN "action_agents"
    ELSE "END"

\* The state a node of every invocation is passed, were it kept on the graph
\* instance: the state of the first invocation
state_on_graph(rs, r) == rs[1].state

\* The state a node of invocation r is passed: the one graph.ainvoke holds for
\* that invocation
state_of(rs, r) == rs[r].state

\* The periodic run of run_agent_monitoring and a second invocation with an
\* initial state of its own
ConcInit ==
    /\ InitRun
    /\ state = MonitoringState
    /\ runs \in {[r \in Runs |-> NewRun(IF r = 1 THEN MonitoringState ELSE s)] :
                    s \in InitialStates}
    /\ ServicesIdle

RunIdle == UNCHANGED <<pc, phase, outcome, error, state, visited, last, blend, dispatch,
                       db_session, services>>

run_start(r) ==
    /\ runs[r].pc = "START"
    /\ runs[r].outcome = "running"
    /\ runs' = [runs EXCEPT ![r].pc = "sentinel"]
    /\ RunIdle

run_node(r) ==
    /\ runs[r].pc \in {"sentinel", "orchestrator", "action_agents", "monitor"}
    /\ runs[r].phase = "ready"
    /\ runs[r].outcome = "running"
    /\ \E in \in StageInputs(runs[r].pc, state_of(runs, r)) :
        LET result == node_step(runs[r].pc, state_of(runs, r), in, db_session)
        IN  runs' = [runs EXCEPT
                ![r].inputs = Append(@, in),
                ![r].outcome = IF result.raised THEN "raised" ELSE @,
                ![r].phase = IF result.raised THEN @ ELSE "merged",
                ![r].state = IF result.raised THEN @ ELSE result.state]
    /\ RunIdle

run_edge(r) ==
    /\ runs[r].phase = "merged"
    /\ runs[r].outcome = "running"
    /\ LET target == next_node(runs[r].pc, runs[r].state)
       IN  runs' = [runs EXCEPT
                ![r].pc = target,
                ![r].phase = IF target = "END" THEN "done" ELSE "ready",
                ![r].outcome = IF target = "END" THEN "returned" ELSE @]
    /\ RunIdle

ConcNext ==
    \E r \in Runs :
        \/ run_start(r)
        \/ run_node(r)
        \/ run_edge(r)

\* The event loop interleaves the invocations at their awaits
ConcSpec == ConcInit /\ [][ConcNext]_vars

----------------------------------------------------------------------------
(* OrchestratorAgent.orchestrate called directly, as the agent tests call it *)

CoreIdleInit ==
    /\ InitRun
    /\ state = MonitoringState
    /\ db_session = "session"
    /\ runs = [r \in Runs |-> NewRun(MonitoringState)]

CoreIdle == UNCHANGED <<pc, phase, outcome, error, state, visited, last, blend, dispatch,
                        db_session, runs>>

\* States a caller passes: a surge_prediction with or without each key
CallStates ==
    {[MonitoringState EXCEPT !.surge_prediction =
        [EmptyDict EXCEPT !.surge_likelihood = l, !.confidence_score = c, !.reasoning = r]] :
        l \in {None} \cup {Some(x) : x \in Likelihoods},
        c \in {None} \cup {Some(x) : x \in {0, 60, 70, 85, 100}},
        r \in {None, Some("llm reasoning")}}

\* orchestrate reaches agent_executor.ainvoke
orchestrate_invokes(s) ==
    /\ Has(s.surge_prediction.surge_likelihood)
    /\ Get(s.surge_prediction.surge_likelihood) # "low"
    /\ Has(s.surge_prediction.confidence_score)

CallInit ==
    /\ CoreIdleInit
    /\ call \in {[NoCall EXCEPT !.state = s] : s \in CallStates}
    /\ retry = NoRetry
    /\ api = NoApi
    /\ loop = NoLoop
    /\ ingest = NoIngest
    /\ bulk = NoBulk
    /\ ws = NoWs

call_orchestrate ==
    /\ ~call.called
    /\ \E agent_ok \in BOOLEAN :
        call' = [call EXCEPT !.called = TRUE,
                             !.agent_ok = agent_ok,
                             !.invoked = orchestrate_invokes(call.state),
                             !.result = orchestrate(call.state, agent_ok)]
    /\ CoreIdle
    /\ UNCHANGED <<retry, api, loop, ingest, bulk, ws>>

CallNext == call_orchestrate

CallSpec == CallInit /\ [][CallNext]_vars

----------------------------------------------------------------------------
(* Retry loops of the external calls: AQIService and the embedding client *)

\* AQIService.max_retries
max_retries == 3

\* AQIService.retry_delay, in seconds
retry_delay == 1

\* default of the parameter max_retries of _post
post_max_retries == 3

RECURSIVE Pow2(_)
Pow2(n) == IF n = 0 THEN 1 ELSE 2 * Pow2(n - 1)

\* What one request of _fetch_with_retry can meet: a status code, a timeout
\* (httpx.TimeoutException) or another exception
AqiResponses == {"200", "429", "500", "timeout", "error"}

\* What one request of _post can meet: a status code or a
\* requests.exceptions.RequestException raised by requests.post
PostResponses == {"200", "429", "500", "error"}

\* One pass of the loop body of _fetch_with_retry: what it does with the
\* response of attempt number attempt (from 0)
fetch_body(attempt, response) ==
    IF response = "200" THEN [do |-> "return", result |-> "json", wait |-> None]
    ELSE IF response = "429"
        THEN [do |-> "continue", result |-> "pending",
              wait |-> Some(retry_delay * Pow2(attempt))]
    ELSE IF response = "timeout"
        THEN [do |-> "continue", result |-> "pending",
              wait |-> IF attempt < max_retries - 1 THEN Some(retry_delay) ELSE None]
    ELSE [do |-> "return", result |-> "None", wait |-> None]

\* One pass of the loop body of _post
post_body(attempt, response) ==
    IF response = "200" THEN [do |-> "return", result |-> "json", wait |-> None]
    ELSE IF attempt < post_max_retries
        THEN [do |-> "continue", result |-> "pending", wait |-> Some(Pow2(attempt) + 1)]
    ELSE [do |-> "raise", result |-> "raised", wait |-> None]

\* range(self.max_retries) and range(max_retries + 1)
attempts_of(client) == IF client = "aqi" THEN max_retries ELSE post_max_retries + 1

RetryFrame ==
    /\ CoreIdle
    /\ UNCHANGED <<call, api, loop, ingest, bulk, ws>>

\* source "cache": the coordinates are cached; "no_key": no API key is set
RetryInit ==
    /\ CoreIdleInit
    /\ retry \in {[NoRetry EXCEPT !.client = "aqi", !.source = s] :
                    s \in {"none", "cache", "no_key"}}
                 \cup {[NoRetry EXCEPT !.client = "vertex"]}
    /\ call = NoCall
    /\ api = NoApi
    /\ loop = NoLoop
    /\ ingest = NoIngest
    /\ bulk = NoBulk
    /\ ws = NoWs

\* get_aqi_by_location up to the call of _fetch_with_retry
get_aqi_by_location ==
    /\ retry.client = "aqi"
    /\ retry.at = "idle"
    /\ retry' = IF retry.source = "cache" THEN [retry EXCEPT !.at = "done", !.source = "cached"]
                ELSE IF retry.source = "no_key"
                    THEN [retry EXCEPT !.at = "done", !.source = "simulated"]
                ELSE [retry EXCEPT !.at = "request"]
    /\ RetryFrame

\* embed_text or generate_text calls _post
post_call ==
    /\ retry.client = "vertex"
    /\ retry.at = "idle"
    /\ retry' = [retry EXCEPT !.at = "request"]
    /\ RetryFrame

\* The loop moves on to its next attempt, or ends when range() is exhausted
NextAttempt(r) ==
    IF r.attempt + 1 < attempts_of(r.client)
    THEN [r EXCEPT !.attempt = @ + 1, !.at = "request"]
    ELSE [r EXCEPT !.attempt = @ + 1, !.at = "returned", !.result = "None"]

\* one request and what the loop body does with its response, up to
\* time.sleep or the end of the body
retry_attempt ==
    /\ retry.at = "request"
    /\ \E response \in IF retry.client = "aqi" THEN AqiResponses ELSE PostResponses :
        LET b == IF retry.client = "aqi" THEN fetch_body(retry.attempt, response)
                 ELSE post_body(retry.attempt, response)
            r == [retry EXCEPT !.responses = Append(@, response)]
        IN  retry' =
                IF b.do = "continue" THEN
                    (IF Has(b.wait)
                     THEN [r EXCEPT !.waits = Append(@, Get(b.wait)), !.at = "sleeping"]
                     ELSE NextAttempt(r))
                ELSE [r EXCEPT !.result = b.result,
                               !.at = IF retry.client = "aqi" THEN "returned" ELSE "done"]
    /\ RetryFrame

\* time.sleep(wait_time) ends
retry_wake ==
    /\ retry.at = "sleeping"
    /\ retry' = NextAttempt(retry)
    /\ RetryFrame

\* get_aqi_by_location after _fetch_with_retry returned: the simulated value
\* when there is no data or no AQI can be extracted from it
aqi_adapt ==
    /\ retry.client = "aqi"
    /\ retry.at = "returned"
    /\ \E extracted \in BOOLEAN :
        retry' = [retry EXCEPT
                    !.at = "done",
                    !.source = IF retry.result = "json" /\ extracted
                               THEN "api" ELSE "simulated"]
    /\ RetryFrame

RetryNext ==
    \/ get_aqi_by_location
    \/ post_call
    \/ retry_attempt
    \/ retry_wake
    \/ aqi_adapt

RetrySpec == RetryInit /\ [][RetryNext]_vars

----------------------------------------------------------------------------
(* The approval API of the recommendations table *)

\* an id no row has, as uuid4() in the tests
UnknownIds == {"fake"}

StatusFilters == {"all", "pending", "approved", "rejected"}

ApiFrame ==
    /\ CoreIdle
    /\ UNCHANGED <<call, retry, loop, ingest, bulk, ws>>

\* The rows the agents stored, each with the default status
ApiInit ==
    /\ CoreIdleInit
    /\ api = NoApi
    /\ call = NoCall
    /\ retry = NoRetry
    /\ loop = NoLoop
    /\ ingest = NoIngest
    /\ bulk = NoBulk
    /\ ws = NoWs

\* GET /recommendations?status=...
get_recommendations ==
    /\ \E status \in StatusFilters :
        api' = [api EXCEPT !.response =
                    [op |-> "list:" \o status, id |-> "none", code |-> 200,
                     rows |-> {id \in RecIds : status = "all" \/ api.status[id] = status}]]
    /\ ApiFrame

\* POST /recommendations/{rec_id}/approve
approve_recommendation ==
    /\ \E rec_id \in RecIds \cup UnknownIds :
        api' = IF rec_id \notin RecIds
               THEN [api EXCEPT !.response =
                        [op |-> "approve", id |-> rec_id, code |-> 404, rows |-> {}]]
               ELSE [api EXCEPT !.status[rec_id] = "approved",
                                !.response = [op |-> "approve", id |-> rec_id, code |-> 200,
                                              rows |-> {rec_id}]]
    /\ ApiFrame

\* POST /recommendations/{rec_id}/reject; reason is a required query
\* parameter, without it the request is answered 422 before the handler runs
reject_recommendation ==
    /\ \E rec_id \in RecIds \cup UnknownIds, reason_given \in BOOLEAN :
        api' = IF ~reason_given
               THEN [api EXCEPT !.response =
                        [op |-> "reject", id |-> rec_id, code |-> 422, rows |-> {}]]
               ELSE IF rec_id \notin RecIds
               THEN [api EXCEPT !.response =
                        [op |-> "reject", id |-> rec_id, code |-> 404, rows |-> {}]]
               ELSE [api EXCEPT !.status[rec_id] = "rejected",
                                !.response = [op |-> "reject", id |-> rec_id, code |-> 200,
                                              rows |-> {}]]
    /\ ApiFrame

ApiNext ==
    \/ get_recommendations
    \/ approve_recommendation
    \/ reject_recommendation

ApiSpec == ApiInit /\ [][ApiNext]_vars

----------------------------------------------------------------------------
(* run_agent_monitoring: the periodic scheduler of the workflow.  Invocation  *)
(* 1 of runs is the run of the loop, invocation 2 one started by another      *)
(* caller of the graph.                                                       *)

\* No run of the loop started yet
IdleRun == [NewRun(MonitoringState) EXCEPT !.pc = "idle", !.outcome = "none"]

\* initial_state built once and kept across the passes of the loop
reuse_previous_state(previous) == IF previous.pc = "idle" THEN MonitoringState ELSE previous.state

\* initial_state is a new dict literal in every pass of the loop
build_initial_state(previous) == MonitoringState

LoopFrame ==
    /\ UNCHANGED <<pc, phase, outcome, error, state, visited, last, blend, dispatch, db_session>>
    /\ UNCHANGED <<call, retry, api, ingest, bulk, ws>>

\* The task has entered run_agent_monitoring: the AQI broadcast task is
\* created and the first pass of the loop begins
LoopInit ==
    /\ InitRun
    /\ state = MonitoringState
    /\ db_session = "session"
    /\ runs = [r \in Runs |-> IF r = 1 THEN IdleRun ELSE NewRun(MonitoringState)]
    /\ loop = [NoLoop EXCEPT !.pc = "gather", !.aqi_task = TRUE]
    /\ call = NoCall
    /\ retry = NoRetry
    /\ api = NoApi
    /\ ingest = NoIngest
    /\ bulk = NoBulk
    /\ ws = NoWs

\* the try block up to swarm.run(initial_state): gathering the data, the
\* database session or the construction of the graph may raise
loop_gather ==
    /\ loop.pc = "gather"
    /\ \E ok \in BOOLEAN :
        IF ok
        THEN /\ runs' = [runs EXCEPT ![1] = NewRun(build_initial_state(runs[1]))]
             /\ loop' = [loop EXCEPT !.pc = "running"]
        ELSE /\ loop' = [loop EXCEPT !.pc = "sleep60", !.failed = "gather"]
             /\ UNCHANGED runs
    /\ LoopFrame

\* swarm.run returned or raised
loop_after_run ==
    /\ loop.pc = "running"
    /\ runs[1].outcome \in {"returned", "raised"}
    /\ loop' = IF runs[1].outcome = "returned"
               THEN [loop EXCEPT !.pc = "broadcast"]
               ELSE [loop EXCEPT !.pc = "sleep60", !.failed = "run"]
    /\ UNCHANGED runs
    /\ LoopFrame

\* manager.broadcast of the final state, which may raise
loop_broadcast ==
    /\ loop.pc = "broadcast"
    /\ \E ok \in BOOLEAN :
        loop' = IF ok THEN [loop EXCEPT !.pc = "sleep300", !.failed = "none"]
                ELSE [loop EXCEPT !.pc = "sleep60", !.failed = "broadcast"]
    /\ UNCHANGED runs
    /\ LoopFrame

\* asyncio.sleep(300) or asyncio.sleep(60) ends: while True goes round
loop_wake ==
    /\ loop.pc \in {"sleep300", "sleep60"}
    /\ loop' = [loop EXCEPT !.pc = "gather"]
    /\ UNCHANGED runs
    /\ LoopFrame

Awaits == {"gather", "running", "broadcast", "sleep300", "sleep60"}

\* The cancellation caught by 'except Exception', as an exception of a run
loop_cancel_swallowed ==
    /\ loop.pc \in Awaits
    /\ ~loop.cancelled
    /\ loop' = [loop EXCEPT !.cancelled = TRUE, !.pc = "sleep60", !.failed = "run"]
    /\ UNCHANGED runs
    /\ LoopFrame

\* agent_task.cancel(): CancelledError is raised at the await the task is
\* suspended in; it is not an Exception, so the except clause lets it through
\* and the task ends.  A workflow run the task was awaiting ends with it.
loop_cancel ==
    /\ loop.pc \in Awaits
    /\ ~loop.cancelled
    /\ loop' = [loop EXCEPT !.cancelled = TRUE, !.pc = "ended"]
    /\ runs' = IF loop.pc = "running" /\ runs[1].outcome = "running"
               THEN [runs EXCEPT ![1].outcome = "raised"]
               ELSE runs
    /\ LoopFrame

LoopNext ==
    \/ loop_gather
    \/ loop_after_run
    \/ loop_broadcast
    \/ loop_wake
    \/ \E r \in Runs : run_start(r)
    \/ \E r \in Runs : run_node(r)
    \/ \E r \in Runs : run_edge(r)

\* The event loop resumes every task that is ready and every sleep ends
LoopSpec == LoopInit /\ [][LoopNext]_vars /\ WF_vars(LoopNext)

SchedNext ==
    \/ LoopNext
    \/ loop_cancel

SchedSpec == LoopInit /\ [][SchedNext]_vars

----------------------------------------------------------------------------
(* rag/ingest.py: the queue directory and process_queue *)

\* Files of QUEUE_DIR: queued documents and a file that is not one
QueueFiles == {"a.json", "b.json", "c.json"}

OtherFiles == {"notes.txt"}

\* f.endswith('.json')
IsJson(f) == f \in QueueFiles

Perms(S) == {q \in [1 .. Cardinality(S) -> S] : \A i, j \in 1 .. Cardinality(S) : q[i] = q[j] => i = j}

\* What can happen to one file inside the try block: every step succeeds, or
\* the named step raises
FileOutcomes == {"ok", "load_raises", "embed_raises", "cache_raises", "insert_raises",
                 "remove_raises"}

\* The try block with os.remove(path) placed before the insert
file_body_remove_first(what, cached) ==
    [embedded |-> what \notin {"load_raises", "embed_raises"},
     inserted |-> what \in {"ok", "remove_raises"},
     removed  |-> what \notin {"load_raises", "remove_raises"},
     raised   |-> what # "ok"]

\* The try block of process_queue for one file: which of its steps were done
\* when it ends.  cached tells that get_cached_embedding returned an embedding,
\* so that embed_text and set_cached_embedding are not called.
file_body(what, cached) ==
    [embedded |-> what \notin {"load_raises", "embed_raises"},
     inserted |-> what \in {"ok", "remove_raises"},
     removed  |-> what = "ok",
     raised   |-> what # "ok"]

IngestFrame ==
    /\ CoreIdle
    /\ UNCHANGED <<call, retry, api, loop, bulk, ws>>

\* queue_documents has written some documents
IngestInit ==
    /\ CoreIdleInit
    /\ ingest \in {[NoIngest EXCEPT !.queue = q \cup o] :
                      q \in SUBSET QueueFiles, o \in SUBSET OtherFiles}
    /\ call = NoCall
    /\ retry = NoRetry
    /\ api = NoApi
    /\ loop = NoLoop
    /\ bulk = NoBulk
    /\ ws = NoWs

\* cmd_process_queue calls process_queue: init_db(), then the listing of the
\* directory in the order os.listdir gives
process_queue ==
    /\ ingest.at \in {"idle", "done"}
    /\ \E db_ok \in BOOLEAN, files \in Perms({f \in ingest.queue : IsJson(f)}) :
        ingest' = IF db_ok
                  THEN [ingest EXCEPT !.at = "loop", !.files = files, !.i = 1, !.log = <<>>]
                  ELSE [ingest EXCEPT !.at = "raised", !.files = <<>>, !.i = 0, !.log = <<>>]
    /\ IngestFrame

\* one pass of the for loop
process_file ==
    /\ ingest.at = "loop"
    /\ ingest.i <= Len(ingest.files)
    /\ \E cached \in BOOLEAN : \E what \in FileOutcomes :
        /\ cached => what \notin {"embed_raises", "cache_raises"}
        /\ LET fn == ingest.files[ingest.i]
               b == file_body(what, cached)
           IN  ingest' = [ingest EXCEPT
                   !.documents = IF b.inserted THEN @ \cup {fn} ELSE @,
                   !.queue = IF b.removed THEN @ \ {fn} ELSE @,
                   !.log = Append(@, [file |-> fn, outcome |-> what,
                                      embedded |-> b.embedded, inserted |-> b.inserted,
                                      removed |-> b.removed]),
                   !.i = @ + 1]
    /\ IngestFrame

\* the for loop is exhausted and process_queue returns
process_queue_return ==
    /\ ingest.at = "loop"
    /\ ingest.i > Len(ingest.files)
    /\ ingest' = [ingest EXCEPT !.at = "done"]
    /\ IngestFrame

IngestNext ==
    \/ process_queue
    \/ process_file
    \/ process_queue_return

IngestSpec == IngestInit /\ [][IngestNext]_vars

----------------------------------------------------------------------------
(* MessagingService.send_bulk_alerts *)

\* What send_sms does for a recipient: returns {'success': True, ...},
\* returns {'success': False, ...} or raises
SendOutcomes == {"sent", "unsuccessful", "raises"}

\* the dict send_bulk_alerts returns
bulk_summary(recipients, results, failed) ==
    [success |-> TRUE, total |-> Len(recipients), sent |-> Len(results) - failed,
     failed |-> failed, results |-> results]

BulkFrame ==
    /\ CoreIdle
    /\ UNCHANGED <<call, retry, api, loop, ingest, ws>>

\* A call with up to MaxRecipients recipients, each with what its send does
BulkInit ==
    /\ CoreIdleInit
    /\ bulk \in {[NoBulk EXCEPT !.at = "loop", !.recipients = r, !.i = 1] :
                    r \in SeqsUpTo(SendOutcomes, MaxRecipients)}
    /\ call = NoCall
    /\ retry = NoRetry
    /\ api = NoApi
    /\ loop = NoLoop
    /\ ingest = NoIngest
    /\ ws = NoWs

\* one pass of the for loop: the send, results.append, the failed counter
bulk_send ==
    /\ bulk.at = "loop"
    /\ bulk.i <= Len(bulk.recipients)
    /\ LET what == bulk.recipients[bulk.i]
       IN  bulk' = [bulk EXCEPT
                !.results = IF what = "raises" THEN @
                            ELSE Append(@, [success |-> what = "sent", recipient |-> bulk.i]),
                !.failed = IF what = "sent" THEN @ ELSE @ + 1,
                !.i = @ + 1]
    /\ BulkFrame

\* the loop is exhausted: the summary is returned
bulk_return ==
    /\ bulk.at = "loop"
    /\ bulk.i > Len(bulk.recipients)
    /\ bulk' = [bulk EXCEPT
            !.at = "done",
            !.summary = Some(bulk_summary(bulk.recipients, bulk.results, bulk.failed))]
    /\ BulkFrame

BulkNext ==
    \/ bulk_send
    \/ bulk_return

BulkSpec == BulkInit /\ [][BulkNext]_vars

----------------------------------------------------------------------------
(* ConnectionManager: the registry of WebSocket connections *)

InList(q, x) == \E k \in 1 .. Len(q) : q[k] = x

\* list.remove(x): the list without the first occurrence of x
Remove(q, x) ==
    LET k == CHOOSE j \in 1 .. Len(q) : q[j] = x /\ \A h \in 1 .. j - 1 : q[h] # x
    IN  [h \in 1 .. Len(q) - 1 |-> IF h < k THEN q[h] ELSE q[h + 1]]

RECURSIVE remove_disconnected(_, _, _, _)
\* the loop 'for conn in disconnected: self.active_connections.remove(conn)'
\* from entry k on; remove raises ValueError for a connection not in the list
remove_disconnected(active, disconnected, k, removed) ==
    IF k > Len(disconnected)
        THEN [active |-> active, removed |-> removed, raised |-> FALSE]
    ELSE IF ~InList(active, disconnected[k])
        THEN [active |-> active, removed |-> removed, raised |-> TRUE]
    ELSE remove_disconnected(Remove(active, disconnected[k]), disconnected, k + 1,
                             removed \cup {disconnected[k]})

WsFrame ==
    /\ CoreIdle
    /\ UNCHANGED <<call, retry, api, loop, ingest, bulk>>

WsInit ==
    /\ CoreIdleInit
    /\ ws = NoWs
    /\ call = NoCall
    /\ retry = NoRetry
    /\ api = NoApi
    /\ loop = NoLoop
    /\ ingest = NoIngest
    /\ bulk = NoBulk

\* websocket_endpoint: manager.connect(websocket)
connect ==
    /\ \E websocket \in Clients \ ws.registered :
        ws' = [ws EXCEPT !.active_connections = Append(@, websocket),
                         !.registered = @ \cup {websocket}]
    /\ WsFrame

\* The client goes away: sends to it fail from now on and its endpoint's
\* receive_text will raise WebSocketDisconnect
client_close ==
    /\ \E websocket \in ws.registered \ ws.closed :
        ws' = [ws EXCEPT !.closed = @ \cup {websocket}]
    /\ WsFrame

\* websocket_endpoint catches WebSocketDisconnect: manager.disconnect(websocket)
disconnect ==
    /\ \E websocket \in ws.closed \ ws.handled :
        ws' = IF InList(ws.active_connections, websocket)
              THEN [ws EXCEPT !.active_connections = Remove(@, websocket),
                              !.removals[websocket] = @ + 1,
                              !.handled = @ \cup {websocket}]
              ELSE [ws EXCEPT !.error = "disconnect: ValueError",
                              !.handled = @ \cup {websocket}]
    /\ WsFrame

\* The for loop of broadcast asks its iterator for the next connection: the
\* iterator reads the list as it is now at position i.  With a connection
\* left the task suspends in send_json; otherwise the loop is over and the
\* disconnected clients are removed, without another suspension.
broadcast_next(w) ==
    IF w.i <= Len(w.active_connections)
    THEN [w EXCEPT !.sending = Some(w.active_connections[w.i])]
    ELSE LET r == remove_disconnected(w.active_connections, w.disconnected, 1, {})
         IN  [w EXCEPT
                !.broadcasting = FALSE,
                !.sending = None,
                !.active_connections = r.active,
                !.removals = [c \in Clients |-> IF c \in r.removed THEN @[c] + 1 ELSE @[c]],
                !.error = IF r.raised THEN "broadcast: ValueError" ELSE @]

\* manager.broadcast(message) is called and runs up to its first await
broadcast ==
    /\ ~ws.broadcasting
    /\ ws' = broadcast_next(
                [ws EXCEPT !.broadcasting = TRUE, !.i = 1, !.disconnected = <<>>,
                           !.delivered = {},
                           !.targets = {c \in Clients : InList(ws.active_connections, c)}])
    /\ WsFrame

\* await connection.send_json(message) ends, by returning or by raising when
\* the client has gone away, and the loop goes on to its next await or its end
broadcast_resume ==
    /\ ws.broadcasting
    /\ Has(ws.sending)
    /\ LET connection == Get(ws.sending)
       IN  ws' = broadcast_next(
                    IF connection \in ws.closed
                    THEN [ws EXCEPT !.disconnected = Append(@, connection), !.i = @ + 1]
                    ELSE [ws EXCEPT !.delivered = @ \cup {connection}, !.i = @ + 1])
    /\ WsFrame

WsNext ==
    \/ connect
    \/ client_close
    \/ disconnect
    \/ broadcast
    \/ broadcast_resume

\* The event loop interleaves the endpoints and the broadcast at their awaits
WsSpec == WsInit /\ [][WsNext]_vars

----------------------------------------------------------------------------
(* Properties *)

IsPrefix(p, q) == Len(p) <= Len(q) /\ \A i \in 1 .. Len(p) : p[i] = q[i]

SentinelMerged == visited # <<>>

PredictedEscalating ==
    /\ Has(state.surge_prediction.surge_likelihood)
    /\ Get(state.surge_prediction.surge_likelihood) \in Escalating

EscalationPath == <<"sentinel", "orchestrator", "action_agents">>

MonitorPath == <<"sentinel", "monitor">>

\* C1: once the Sentinel update is merged, a prediction of high or critical
\* makes the run go through orchestrator and then action_agents and never
\* monitor, and any other likelihood makes it go through monitor only; a run
\* that reaches END has executed exactly that path.  On a state whose
\* prediction has no likelihood the router answers "monitor".
C1_Routing ==
    /\ SentinelMerged =>
        LET path == IF PredictedEscalating THEN EscalationPath ELSE MonitorPath
        IN  /\ IsPrefix(visited, path)
            /\ pc \in {path[i] : i \in 1 .. Len(path)} \cup {"END"}
            /\ pc = "END" => visited = path
    /\ ~Has(state.surge_prediction.surge_likelihood) => should_escalate(state) = "monitor"

C1_Witness ==
    /\ pc = "END"
    /\ PredictedEscalating
    /\ visited = EscalationPath

AllowedEdges ==
    {<<"START", "sentinel">>, <<"sentinel", "orchestrator">>, <<"sentinel", "monitor">>,
     <<"orchestrator", "action_agents">>, <<"action_agents", "END">>, <<"monitor", "END">>}

\* C2: the only stage transitions a run takes are entry to sentinel, sentinel
\* to orchestrator or monitor, orchestrator to action_agents, action_agents to
\* END and monitor to END; nothing leaves END.
C2_OnlyDeclaredEdges == [][pc' # pc => <<pc, pc'>> \in AllowedEdges]_vars

C2_Witness ==
    /\ pc = "END"
    /\ visited = MonitorPath

TransientKinds == {"ServiceError", "KeyError", "ValueError", "AttributeError", "HandlerError"}

\* C3: a transient failure raised inside a stage body never leaves run().
C3_TransientNeverPropagates ==
    ~(outcome = "raised" /\ error.kind \in TransientKinds)

HandlerRaised ==
    /\ dispatch.called
    /\ \E i \in 1 .. Len(dispatch.recommendations) :
        /\ dispatch.recommendations[i].type \in HandledTypes
        /\ dispatch.outcomes[i].raises

\* C4: when the handler of one recommendation raises, execute_recommendations
\* still returns one entry per input recommendation.
C4_DispatcherIsolation ==
    HandlerRaised =>
        /\ ~dispatch.result.raised
        /\ Len(dispatch.result.results) = Len(dispatch.recommendations)

\* C5: no merge makes messages, reasoning_chain or recommendations shorter,
\* every executed stage adds at least one entry to messages, and at END
\* messages holds at least as many entries as stages were executed.
C5_AppendOnly ==
    /\ last.node # "none" =>
        /\ \A k \in AppendOnly : Len(state[k]) >= Len(last.before[k])
        /\ Len(state.messages) >= Len(last.before.messages) + 1
    /\ pc = "END" => Len(state.messages) >= Len(visited)

C5_Witness ==
    /\ pc = "END"
    /\ Len(visited) = 3
    /\ Len(last.before.messages) > 0

\* C6: after a stage's merge every append-only field is exactly its value
\* before the merge followed by the entries the stage contributed.
C6_ExactConcatenation ==
    last.node # "none" =>
        \A k \in AppendOnly : state[k] = last.before[k] \o last.contributed[k]

\* C7: a run predicted high or critical ends with recommendations non-empty
\* and with action_results as long as the final recommendations.
C7_ScenarioA ==
    (pc = "END" /\ PredictedEscalating) =>
        /\ Len(state.recommendations) > 0
        /\ "action_results" \in DOMAIN state
        /\ Len(state["action_results"]) = Len(state.recommendations)

\* C8: no staff-reallocation artifact of the staff handler lists as moved a
\* staff member whose fatigue_score is above 70.
C8_StaffingConstraint ==
    (dispatch.called /\ ~dispatch.result.raised) =>
        \A i \in 1 .. Len(dispatch.result.results) :
            dispatch.result.results[i].key = "action_plan" =>
                \A n \in dispatch.result.results[i].artifact.staff_to_move :
                    fatigue_score(n) <= FatigueThreshold

\* C9: when the qualitative output is not parseable JSON the blended result is
\* the default record: likelihood medium, confidence_score 60, reasoning
\* "Analysis in progress".
C9_ScenarioD ==
    (blend.called /\ blend.llm_pred.kind = "text") =>
        /\ ~blend.result.raised
        /\ blend.result.val.surge_likelihood = Some("medium")
        /\ blend.result.val.confidence_score = Some(60)
        /\ blend.result.val.reasoning = Some("Analysis in progress")

\* C10: _combine_predictions returns a prediction record for every response
\* text of the reasoning service and never raises.
C10_BlenderNeverRaises ==
    blend.called => ~blend.result.raised

\* The record _combine_predictions works on after parsing the response
BlendInput == IF blend.llm_pred.kind = "text" THEN DefaultRecord ELSE blend.llm_pred.data

BonusApplied ==
    LET inc == ParseIncrease(BlendInput.predicted_patient_increase)
    IN  inc.ok /\ Abs(inc.n - blend.ts_forecast) < 10

\* C11: the blended confidence_score lies in 0..95 whenever the agreement
\* bonus was applied and in 0..100 whenever it was not.
C11_ConfidenceBound ==
    (blend.called /\ ~blend.result.raised /\ Has(blend.result.val.confidence_score)) =>
        LET c == Get(blend.result.val.confidence_score)
        IN  IF BonusApplied THEN c \in 0 .. 95 ELSE c \in 0 .. 100

\* C12: with base confidence c, qualitative percentage q and forecast p, the
\* blended confidence_score is min(c + 15, 95) when |q - p| < 10 and c when
\* |q - p| >= 10.
C12_BlendRule ==
    (/\ blend.called
     /\ blend.llm_pred.kind = "object"
     /\ Has(blend.llm_pred.data.confidence_score)
     /\ Has(blend.llm_pred.data.predicted_patient_increase)
     /\ Get(blend.llm_pred.data.predicted_patient_increase).form = "pct") =>
        LET c == Get(blend.llm_pred.data.confidence_score)
            q == Get(blend.llm_pred.data.predicted_patient_increase).n
            p == blend.ts_forecast
            d == IF q >= p THEN q - p ELSE p - q
        IN  /\ ~blend.result.raised
            /\ Get(blend.result.val.confidence_score) =
                 IF d < 10 THEN (IF c + 15 < 95 THEN c + 15 ELSE 95) ELSE c

\* q = 22, p = 18, c = 70 gives 85
C12_Witness ==
    /\ blend.called
    /\ blend.llm_pred.kind = "object"
    /\ blend.llm_pred.data.confidence_score = Some(70)
    /\ blend.llm_pred.data.predicted_patient_increase = Some(Increase("pct", 22))
    /\ blend.ts_forecast = 18
    /\ ~blend.result.raised
    /\ blend.result.val.confidence_score = Some(85)

FatalKinds == {"ConfigError"}

LastN(q, n) == SubSeq(q, Len(q) - n + 1, Len(q))

\* Every field of the sentinel update is in the channels
SentinelUpdateApplied ==
    /\ last.node = "sentinel"
    /\ Has(state.surge_prediction.surge_likelihood)
    /\ Has(state.surge_prediction.statistical_forecast)
    /\ state.confidence_score = Get(state.surge_prediction.confidence_score)
    /\ state.current_agent = "sentinel"
    /\ state.next_action = IF PredictedEscalating THEN "escalate_to_orchestrator" ELSE "monitor"
    /\ Len(state.messages) >= 1 /\ LastN(state.messages, 1) = <<"[Sentinel]">>
    /\ Len(state.reasoning_chain) >= 1
    /\ LastN(state.reasoning_chain, 1) = <<Get(state.surge_prediction.reasoning)>>

\* Every field of the orchestrator update is in the channels
OrchestratorUpdateApplied ==
    /\ last.node = "orchestrator"
    /\ state.current_agent = "orchestrator"
    /\ state.next_action = "dispatch_action_agents"
    /\ Len(state.recommendations) >= 3
    /\ LastN(state.recommendations, 3) = parse_recommendations
    /\ Len(state.messages) >= 1 /\ LastN(state.messages, 1) = <<"[Orchestrator]">>
    /\ Len(state.reasoning_chain) >= 1 /\ LastN(state.reasoning_chain, 1) = <<"agent output">>

StageStarts == phase = "ready" /\ (phase' # "ready" \/ outcome' # outcome)

\* C14: the router of sentinel is evaluated, and a following stage starts,
\* only when the whole update of the preceding stage is merged into the state.
C14_MergeBeforeRoute ==
    [][/\ (pc = "sentinel" /\ pc' # pc) => (phase = "merged" /\ SentinelUpdateApplied)
       /\ (pc = "orchestrator" /\ pc' # pc) => (phase = "merged" /\ OrchestratorUpdateApplied)
       /\ (pc \in {"orchestrator", "monitor"} /\ StageStarts) => SentinelUpdateApplied
       /\ (pc = "action_agents" /\ StageStarts) => OrchestratorUpdateApplied]_vars

C14_Witness ==
    /\ pc = "action_agents"
    /\ phase = "ready"
    /\ OrchestratorUpdateApplied

NoStageTwice ==
    \A i, j \in 1 .. Len(visited) : i # j => visited[i] # visited[j]

\* C15: a run whose stage bodies each return reaches END, after two stage
\* executions on the monitor path and three on the escalation path, no stage
\* being executed twice.
C15_Termination ==
    /\ <>(pc = "END" \/ outcome = "raised")
    /\ [](/\ NoStageTwice
          /\ pc = "END" => Len(visited) = IF PredictedEscalating THEN 3 ELSE 2)

C15_Witness ==
    /\ pc = "END"
    /\ outcome = "returned"
    /\ ~PredictedEscalating
    /\ Len(visited) = 2

RECURSIVE Replay(_, _, _, _, _)
\* The state an invocation has after the nodes it executed so far, when it runs
\* alone from initial state s with the same answers ins of the services
Replay(s, node, ins, i, db) ==
    IF i > Len(ins) THEN s
    ELSE LET result == node_step(node, s, ins[i], db)
         IN  IF result.raised THEN s
             ELSE Replay(result.state, next_node(node, result.state), ins, i + 1, db)

\* C16: with two invocations of run() in flight on one graph instance, a step
\* of one leaves the other's state untouched, and each invocation's state, and
\* so its final state, is the one it has when run alone with the same stage
\* results.
C16_CrossRunIsolation ==
    /\ [](\A r \in Runs :
            runs[r].state = Replay(runs[r].initial_state, "sentinel", runs[r].inputs, 1,
                                   db_session))
    /\ [][\A r \in Runs : runs'[r] # runs[r] =>
            \A o \in Runs \ {r} : runs'[o] = runs[o]]_vars

C16_Witness ==
    /\ runs[1].pc = "END"
    /\ runs[2].pc = "END"
    /\ Len(runs[1].inputs) = 3
    /\ Len(runs[2].inputs) = 2
    /\ runs[2].state.messages # runs[1].state.messages

\* C17: execute_recommendations returns exactly one entry per input item, the
\* i-th entry referring to the i-th input recommendation, whatever the type
\* values.
C17_DispatcherCompleteOrdered ==
    (dispatch.called /\ ~dispatch.result.raised) =>
        /\ Len(dispatch.result.results) = Len(dispatch.recommendations)
        /\ \A i \in 1 .. Len(dispatch.result.results) :
            dispatch.result.results[i].recommendation = dispatch.recommendations[i]

\* C18: the merge of an update that contains a key the shared state does not
\* declare fails: no merge of such an update completes.
C18_UnknownKeysRejected ==
    last.node # "none" => last.keys \subseteq Declared

\* C19: on a run that routes to monitor no stage adds a recommendation and
\* action_results is never written, so the final recommendations are the
\* initial ones.
C19_ScenarioB ==
    (last.node \in {"sentinel", "monitor"} /\ ~PredictedEscalating) =>
        /\ state.recommendations = last.before.recommendations
        /\ ~dispatch.called
        /\ "action_results" \notin DOMAIN state

\* C20: after each stage's merge current_agent names the stage that just
\* executed.
C20_CurrentAgent ==
    last.node # "none" => state.current_agent = last.node

AllRateLimited == retry.responses # <<>> /\ \A i \in 1 .. Len(retry.responses) : retry.responses[i] = "429"

\* C21: an external call that keeps receiving rate-limit (429) responses is
\* attempted at most 3 times, each wait between attempts longer than the one
\* before, and then ends with a failure outcome (None or a raised error).
C21_BoundedRetry ==
    AllRateLimited =>
        /\ Len(retry.responses) <= 3
        /\ \A i \in 1 .. Len(retry.waits) - 1 : retry.waits[i] < retry.waits[i + 1]
        /\ retry.at = "done" => retry.result \in {"None", "raised"}

\* C23: orchestrate called with a state whose surge likelihood is low returns
\* next_action "continue_monitoring" together with a recommendations list of
\* length 0, without invoking the reasoning service.
C23_LowSurgeReturnsNoRecommendations ==
    (/\ call.called
     /\ Has(call.state.surge_prediction.surge_likelihood)
     /\ Get(call.state.surge_prediction.surge_likelihood) = "low") =>
        /\ ~call.result.raised
        /\ call.result.val.next_action = "continue_monitoring"
        /\ "recommendations" \in DOMAIN call.result.val
        /\ Len(call.result.val.recommendations) = 0
        /\ ~call.invoked

\* C24: the next_action Sentinel writes is "escalate_to_orchestrator" exactly
\* when the blended prediction's likelihood is high or critical and "monitor"
\* otherwise, and it is "escalate_to_orchestrator" if and only if the router
\* then takes the edge to orchestrator.
C24_NextActionAgreesWithRouter ==
    /\ visited = <<"sentinel">> =>
        /\ state.next_action =
             IF PredictedEscalating THEN "escalate_to_orchestrator" ELSE "monitor"
        /\ blend.called /\ state.surge_prediction = blend.result.val
        /\ pc # "sentinel" =>
             (state.next_action = "escalate_to_orchestrator" <=> pc = "orchestrator")
    /\ Len(visited) >= 2 =>
        (visited[2] = "orchestrator" <=> PredictedEscalating)

C24_Witness ==
    /\ visited = <<"sentinel">>
    /\ pc = "orchestrator"
    /\ state.next_action = "escalate_to_orchestrator"

C25_ApprovalLifecycle ==
    [][/\ \A id \in RecIds :
            api'.status[id] # api.status[id] =>
                /\ api.status[id] = "pending"
                /\ api'.response.code = 200
                /\ api'.response.id = id
                /\ api'.status[id] =
                     IF api'.response.op = "approve" THEN "approved" ELSE "rejected"
       /\ (api'.response.op = "approve" /\ api'.response.code = 200) =>
            api'.status[api'.response.id] # "pending"
       /\ api'.response.op = "list:pending" =>
            \A id \in api'.response.rows : api'.status[id] = "pending"
       /\ (api'.response.op \in {"approve", "reject"} /\ api'.response.id \in UnknownIds
           /\ api'.response.code # 422) =>
            api'.response.code = 404 /\ api'.status = api.status
       /\ \A id \in RecIds :
            api.status[id] \in {"approved", "rejected"} => api'.status[id] = api.status[id]
      ]_vars

RunStarts == runs[1].pc # "START" /\ runs'[1].pc = "START"

C28_IngestionQueue ==
    /\ \A k \in 1 .. Len(ingest.log) :
        LET e == ingest.log[k]
        IN  /\ e.file = ingest.files[k]
            /\ e.removed => (e.embedded /\ e.inserted /\ e.file \in ingest.documents)
            /\ e.removed <=> e.file \notin ingest.queue
            /\ e.outcome \in {"embed_raises", "insert_raises"} => e.file \in ingest.queue
    /\ ingest.at = "loop" => ingest.i = Len(ingest.log) + 1
    /\ ingest.at = "done" => Len(ingest.log) = Len(ingest.files)

C28_Witness ==
    /\ ingest.at = "done"
    /\ Len(ingest.log) = 3
    /\ ingest.log[1].outcome = "insert_raises"
    /\ ingest.log[2].outcome = "embed_raises"
    /\ ingest.log[3].removed
    /\ ingest.log[1].file \in ingest.queue

\* C29: for every list of recipients and every mix of successful sends,
\* unsuccessful results and sends that raise, the summary send_bulk_alerts
\* returns has sent + failed = total, the number of recipients, and sent >= 0.
C29_BulkAccounting ==
    bulk.at = "done" =>
        LET s == Get(bulk.summary)
        IN  /\ s.total = Len(bulk.recipients)
            /\ s.sent + s.failed = s.total
            /\ s.sent >= 0

\* C30: under every interleaving of connect, disconnect and broadcast a
\* failing send to one client does not keep the message from the other
\* clients that were registered when the broadcast began and are still
\* connected, each connection is removed from active_connections at most
\* once, and neither the cleanup of broadcast nor disconnect fails because
\* the other already removed the connection.
C30_RegistryUnderInterleaving ==
    /\ ws.error = "none"
    /\ \A c \in Clients : ws.removals[c] <= 1
    /\ (ws.targets # {} /\ ~ws.broadcasting) =>
        \A c \in ws.targets : c \notin ws.closed => c \in ws.delivered

====
